---- MODULE Spec2Model ----
(***************************************************************************)
(* Vienna apartment price tracker: the listing store (src/src/db.py) and   *)
(* the reconciliation cycle run_scrape (src/scripts/scrape.py).            *)
(*                                                                         *)
(* The four tables are sets of rows.  The connection's view of the tables  *)
(* (listings, listing_status, snapshots, scrape_runs) includes the changes *)
(* of the open transaction; committed is the database as of the last       *)
(* conn.commit().  run_scrape is a process whose position is pc.           *)
(***************************************************************************)
EXTENDS Integers, Sequences, FiniteSets, TLC

VARIABLES
    listings,            \* table listings: rows [id, ad_id, url, first_seen_at]
    listing_status,      \* table listing_status: rows [listing_id, status, closed_at]
    snapshots,           \* table snapshots: rows [id, listing_id, scraped_at, price_value, price_per_sqm]
    scrape_runs,         \* table scrape_runs
    committed,           \* the four tables as of the last conn.commit()
    now,                 \* the wall clock read by datetime.utcnow()
    pc,                  \* position of run_scrape
    run_id,              \* run_scrape: run_id
    open_ad_ids_before,  \* run_scrape: open_ad_ids_before
    scraped,             \* run_scrape: listings (the scraper's result)
    idx,                 \* run_scrape: position of the for loop in scraped
    scraped_at,          \* run_scrape: scraped_at
    new_count,           \* run_scrape: new_count
    scraped_ad_ids,      \* run_scrape: scraped_ad_ids
    closed_count,        \* run_scrape: closed_count
    error,               \* run_scrape: str(e) of the exception being handled
    call,                \* the store operation this step called, with its arguments
    ret                  \* what that call returned, or the exception it raised

vars == <<listings, listing_status, snapshots, scrape_runs, committed, now, pc,
          run_id, open_ad_ids_before, scraped, idx, scraped_at, new_count,
          scraped_ad_ids, closed_count, error, call, ret>>

tables == <<listings, listing_status, snapshots, scrape_runs>>
locals == <<run_id, open_ad_ids_before, scraped, idx, scraped_at, new_count,
            scraped_ad_ids, closed_count, error>>

----------------------------------------------------------------------------
(* Bounds of the model *)

MaxRuns == 3      \* reconciliation cycles (rows of scrape_runs)
MaxScrape == 2    \* length of one scrape result
MaxTime == 1      \* last value of the clock when the store is called directly
MaxSnapshots == 2 \* rows of snapshots when the store is called directly

(* SQL NULL, and Python None *)
NULL == -1

AdIds == {"A", "B"}            \* non-empty external ad identifiers
EmptyAdId == ""                \* str(item.get("id", "")) of an item without id
Urls == {"u1", "u2"}           \* urls a caller of the store may pass
Prices == {NULL, 100}          \* price_value of a snapshot
ScrapedUrls == {"u1"}          \* urljoin(WILLHABEN_BASE_URL, seo_url) of a scraped entry
ScrapedPrices == {100}         \* price_value of a scraped entry
ScrapedPerSqm == {5}           \* price_per_sqm of a scraped entry

ScrapedListing ==
    [ad_id : AdIds \cup {EmptyAdId}, url : ScrapedUrls, price_value : ScrapedPrices,
     price_per_sqm : ScrapedPerSqm]

RECURSIVE SeqsUpTo(_, _)
SeqsUpTo(S, n) ==
    IF n = 0 THEN {<<>>}
    ELSE LET shorter == SeqsUpTo(S, n - 1)
         IN  shorter \cup {Append(s, x) : s \in {t \in shorter : Len(t) = n - 1}, x \in S}

ScrapeResults == SeqsUpTo(ScrapedListing, MaxScrape)

(* Exceptions, by the text str(e) that fail_scrape_run records *)
ScrapeError == "scrape failed"
IntegrityError == "UNIQUE constraint failed: snapshots.listing_id, snapshots.scraped_at"
OperationalError == "database or disk is full"
ErrorBound == 200

----------------------------------------------------------------------------
(* The store: src/src/db.py *)

Max(S) == CHOOSE m \in S : \A x \in S : x <= m

\* INTEGER PRIMARY KEY AUTOINCREMENT: one more than the largest id so far
NextId(rows) == IF rows = {} THEN 1 ELSE Max({r.id : r \in rows}) + 1

\* UNIQUE(listing_id, scraped_at, price_value): a constraint over one column too many
SnapshotExistsWithPrice(snaps, listing_id, at) ==
    \E s \in snaps : s.listing_id = listing_id /\ s.scraped_at = at /\ s.price_value = NULL

\* UNIQUE(listing_id, scraped_at)
SnapshotExists(snaps, listing_id, at) ==
    \E s \in snaps : s.listing_id = listing_id /\ s.scraped_at = at

\* SELECT id FROM listings WHERE ad_id = ?
LookupListing(ls, ad_id) == {l \in ls : l.ad_id = ad_id}

\* INSERT INTO listings (ad_id, url, first_seen_at)
InsertListing(ls, ad_id, url, t) ==
    ls \cup {[id |-> NextId(ls), ad_id |-> ad_id, url |-> url, first_seen_at |-> t]}

\* INSERT INTO listing_status (listing_id, status) VALUES (?, 'open')
InsertStatus(st, listing_id) ==
    st \cup {[listing_id |-> listing_id, status |-> "open", closed_at |-> NULL]}

\* get_or_create_listing that looks the listing up by its url
get_or_create_listing_by_url(ls, st, ad_id, url, t) ==
    LET row == {l \in ls : l.url = url}
    IN  IF row # {}
        THEN [listings |-> ls, listing_status |-> st,
              id |-> (CHOOSE l \in row : TRUE).id]
        ELSE [listings |-> InsertListing(ls, ad_id, url, t),
              listing_status |-> InsertStatus(st, NextId(ls)),
              id |-> NextId(ls)]

\* get_or_create_listing: the tables after the call and the id it returns
get_or_create_listing(ls, st, ad_id, url, t) ==
    LET row == LookupListing(ls, ad_id)
    IN  IF row # {}
        THEN [listings |-> ls, listing_status |-> st,
              id |-> (CHOOSE l \in row : TRUE).id]
        ELSE [listings |-> InsertListing(ls, ad_id, url, t),
              listing_status |-> InsertStatus(st, NextId(ls)),
              id |-> NextId(ls)]

\* insert_snapshot: the snapshots table after a successful INSERT
insert_snapshot(snaps, listing_id, at, price_value, price_per_sqm) ==
    snaps \cup {[id |-> NextId(snaps), listing_id |-> listing_id,
                 scraped_at |-> at, price_value |-> price_value,
                 price_per_sqm |-> price_per_sqm]}

\* get_open_listing_ad_ids without WHERE ls.status = 'open'
get_open_listing_ad_ids_any_status(ls, st) ==
    {l.ad_id : l \in {m \in ls : \E s \in st : s.listing_id = m.id}}

\* get_open_listing_ad_ids: listings JOIN listing_status WHERE status = 'open'
get_open_listing_ad_ids(ls, st) ==
    {l.ad_id : l \in {m \in ls : \E s \in st : s.listing_id = m.id /\ s.status = "open"}}

\* The rows of listing_status that the UPDATE of mark_listings_closed matches
ClosedRows(ls, st, ad_ids) ==
    {s \in st : \E l \in ls : l.id = s.listing_id /\ l.ad_id \in ad_ids}

\* mark_listings_closed with an UPDATE that lacks its WHERE clause
mark_listings_closed_every_row(ls, st, ad_ids, at) ==
    IF ad_ids = {}
    THEN [listing_status |-> st, count |-> 0]
    ELSE [listing_status |-> {[s EXCEPT !.status = "closed", !.closed_at = at] : s \in st},
          count |-> Cardinality(st)]

\* mark_listings_closed: the listing_status table after the call and its rowcount
mark_listings_closed(ls, st, ad_ids, at) ==
    IF ad_ids = {}
    THEN [listing_status |-> st, count |-> 0]
    ELSE LET hit == ClosedRows(ls, st, ad_ids)
         IN  [listing_status |->
                  (st \ hit) \cup {[s EXCEPT !.status = "closed", !.closed_at = at] : s \in hit},
              count |-> Cardinality(hit)]

\* start_scrape_run
start_scrape_run(runs, t) ==
    runs \cup {[id |-> NextId(runs), started_at |-> t, completed_at |-> NULL,
                listings_found |-> NULL, new_listings |-> NULL,
                closed_listings |-> NULL, status |-> "running"]}

\* complete_scrape_run with an UPDATE that lacks WHERE id = ?
complete_scrape_run_every_run(runs, id, found, new, closed, t) ==
    {[r EXCEPT !.completed_at = t, !.listings_found = found,
               !.new_listings = new, !.closed_listings = closed,
               !.status = "completed"] : r \in runs}

\* complete_scrape_run
complete_scrape_run(runs, id, found, new, closed, t) ==
    {IF r.id = id
     THEN [r EXCEPT !.completed_at = t, !.listings_found = found,
                    !.new_listings = new, !.closed_listings = closed,
                    !.status = "completed"]
     ELSE r : r \in runs}

\* f"failed: {error[:200]}"
FailedStatus(e) == "failed: " \o (IF Len(e) <= ErrorBound THEN e ELSE SubSeq(e, 1, ErrorBound))

\* fail_scrape_run that records no reason
fail_scrape_run_no_reason(runs, id, e, t) ==
    {IF r.id = id
     THEN [r EXCEPT !.completed_at = t, !.status = "failed"]
     ELSE r : r \in runs}

\* fail_scrape_run
fail_scrape_run(runs, id, e, t) ==
    {IF r.id = id
     THEN [r EXCEPT !.completed_at = t, !.status = FailedStatus(e)]
     ELSE r : r \in runs}

----------------------------------------------------------------------------
(* The state after construction: init_db on an empty database file *)

NoCall == [op |-> "none"]

Init ==
    /\ listings = {}
    /\ listing_status = {}
    /\ snapshots = {}
    /\ scrape_runs = {}
    /\ committed = [listings |-> {}, listing_status |-> {}, snapshots |-> {},
                    scrape_runs |-> {}]
    /\ now = 0
    /\ pc = "start"
    /\ run_id = 0
    /\ open_ad_ids_before = {}
    /\ scraped = <<>>
    /\ idx = 0
    /\ scraped_at = 0
    /\ new_count = 0
    /\ scraped_ad_ids = {}
    /\ closed_count = 0
    /\ error = ""
    /\ call = NoCall
    /\ ret = NULL


----------------------------------------------------------------------------
(* The reconciliation cycle: run_scrape, src/scripts/scrape.py *)

Tables == [listings |-> listings, listing_status |-> listing_status,
           snapshots |-> snapshots, scrape_runs |-> scrape_runs]

\* Lines 48-63: a scheduled run begins some time after the one before, with its
\* local variables unbound; start_scrape_run(conn); conn.commit()
StartRun ==
    /\ pc \in {"start", "returned", "raised"}
    /\ Cardinality(scrape_runs) < MaxRuns
    /\ now' = now + 1
    /\ scrape_runs' = start_scrape_run(scrape_runs, now')
    /\ run_id' = NextId(scrape_runs)
    /\ committed' = [Tables EXCEPT !.scrape_runs = scrape_runs']
    /\ pc' = "scrape"
    /\ open_ad_ids_before' = {}
    /\ scraped' = <<>>
    /\ idx' = 0
    /\ scraped_at' = 0
    /\ new_count' = 0
    /\ scraped_ad_ids' = {}
    /\ closed_count' = 0
    /\ error' = ""
    /\ UNCHANGED <<listings, listing_status, snapshots, call, ret>>

\* Lines 67-77: the open set is read, the scraper returns a list (it sleeps 1.5 s
\* on every page it loads, scraper.py line 176), scraped_at is read, the loop starts
ScrapeReturns ==
    /\ pc = "scrape"
    /\ \E result \in ScrapeResults : scraped' = result
    /\ open_ad_ids_before' = get_open_listing_ad_ids(listings, listing_status)
    /\ now' = now + 1
    /\ scraped_at' = now'
    /\ new_count' = 0
    /\ scraped_ad_ids' = {}
    /\ closed_count' = 0
    /\ idx' = 1
    /\ pc' = "loop"
    /\ UNCHANGED <<tables, committed, run_id, error, call, ret>>

\* Lines 67-71: the open set is read, scrape_listings raises
ScrapeRaises ==
    /\ pc = "scrape"
    /\ open_ad_ids_before' = get_open_listing_ad_ids(listings, listing_status)
    /\ error' = ScrapeError
    /\ pc' = "except"
    /\ UNCHANGED <<tables, committed, now, run_id, scraped, idx, scraped_at,
                   new_count, scraped_ad_ids, closed_count, call, ret>>

\* Lines 79-83 with the ad_id added to scraped_ad_ids before it is tested
SkipListingAfterAdd ==
    /\ pc = "loop"
    /\ idx <= Len(scraped)
    /\ scraped[idx].ad_id = EmptyAdId
    /\ scraped_ad_ids' = scraped_ad_ids \cup {scraped[idx].ad_id}
    /\ idx' = idx + 1
    /\ UNCHANGED <<tables, committed, now, pc, run_id, open_ad_ids_before, scraped,
                   scraped_at, new_count, closed_count, error, call, ret>>

\* Lines 79-81: an entry without ad_id is passed over
SkipListing ==
    /\ pc = "loop"
    /\ idx <= Len(scraped)
    /\ scraped[idx].ad_id = EmptyAdId
    /\ idx' = idx + 1
    /\ UNCHANGED <<tables, committed, now, pc, run_id, open_ad_ids_before, scraped,
                   scraped_at, new_count, scraped_ad_ids, closed_count, error,
                   call, ret>>

\* is_new computed against the ad_ids scraped so far in this cycle
IsNewInCycle(ad_id, open_before) == ad_id \notin scraped_ad_ids

\* Lines 83-90: scraped_ad_ids, is_new, get_or_create_listing, new_count
IsNew(ad_id, open_before) == ad_id \notin open_before

\* Lines 79-105: one pass of the loop in which no statement raises
ProcessListing ==
    /\ pc = "loop"
    /\ idx <= Len(scraped)
    /\ scraped[idx].ad_id # EmptyAdId
    /\ LET listing == scraped[idx]
           got == get_or_create_listing(listings, listing_status, listing.ad_id,
                                        listing.url, now)
       IN  /\ ~SnapshotExists(snapshots, got.id, scraped_at)
           /\ scraped_ad_ids' = scraped_ad_ids \cup {listing.ad_id}
           /\ new_count' = IF IsNew(listing.ad_id, open_ad_ids_before)
                           THEN new_count + 1 ELSE new_count
           /\ listings' = got.listings
           /\ listing_status' = got.listing_status
           /\ snapshots' = insert_snapshot(snapshots, got.id, scraped_at,
                                           listing.price_value, listing.price_per_sqm)
    /\ idx' = idx + 1
    /\ UNCHANGED <<scrape_runs, committed, now, pc, run_id, open_ad_ids_before,
                   scraped, scraped_at, closed_count, error, call, ret>>

\* Lines 83-105: insert_snapshot raises sqlite3.IntegrityError on
\* UNIQUE(listing_id, scraped_at); the statement is undone, the transaction stays open
DuplicateSnapshot ==
    /\ pc = "loop"
    /\ idx <= Len(scraped)
    /\ scraped[idx].ad_id # EmptyAdId
    /\ LET listing == scraped[idx]
           got == get_or_create_listing(listings, listing_status, listing.ad_id,
                                        listing.url, now)
       IN  /\ SnapshotExists(snapshots, got.id, scraped_at)
           /\ scraped_ad_ids' = scraped_ad_ids \cup {listing.ad_id}
           /\ new_count' = IF IsNew(listing.ad_id, open_ad_ids_before)
                           THEN new_count + 1 ELSE new_count
           /\ listings' = got.listings
           /\ listing_status' = got.listing_status
    /\ error' = IntegrityError
    /\ pc' = "except"
    /\ UNCHANGED <<snapshots, scrape_runs, committed, now, run_id,
                   open_ad_ids_before, scraped, idx, scraped_at, closed_count,
                   call, ret>>

\* db.py lines 91-101 under run_scrape line 87: the INSERT INTO listings succeeds and
\* the INSERT INTO listing_status raises (the store fails)
StatusInsertFails ==
    /\ pc = "loop"
    /\ idx <= Len(scraped)
    /\ scraped[idx].ad_id # EmptyAdId
    /\ LookupListing(listings, scraped[idx].ad_id) = {}
    /\ scraped_ad_ids' = scraped_ad_ids \cup {scraped[idx].ad_id}
    /\ listings' = InsertListing(listings, scraped[idx].ad_id, scraped[idx].url, now)
    /\ error' = OperationalError
    /\ pc' = "except"
    /\ UNCHANGED <<listing_status, snapshots, scrape_runs, committed, now, run_id,
                   open_ad_ids_before, scraped, idx, scraped_at, new_count,
                   closed_count, call, ret>>

\* Lines 107-112: the open listings that were not scraped are marked closed
MarkClosed ==
    /\ pc = "loop"
    /\ idx > Len(scraped)
    /\ LET closed_ad_ids == open_ad_ids_before \ scraped_ad_ids
           marked == mark_listings_closed(listings, listing_status, closed_ad_ids,
                                          scraped_at)
       IN  /\ listing_status' = IF closed_ad_ids # {} THEN marked.listing_status
                                ELSE listing_status
           /\ closed_count' = IF closed_ad_ids # {} THEN marked.count ELSE 0
    /\ pc' = "complete"
    /\ UNCHANGED <<listings, snapshots, scrape_runs, committed, now, run_id,
                   open_ad_ids_before, scraped, idx, scraped_at, new_count,
                   scraped_ad_ids, error, call, ret>>

\* Lines 115-122: complete_scrape_run(...); conn.commit(); run_scrape returns
CompleteRun ==
    /\ pc = "complete"
    /\ scrape_runs' = complete_scrape_run(scrape_runs, run_id, Len(scraped),
                                          new_count, closed_count, now)
    /\ committed' = [Tables EXCEPT !.scrape_runs = scrape_runs']
    /\ pc' = "returned"
    /\ UNCHANGED <<listings, listing_status, snapshots, now, locals, call, ret>>

\* Lines 115-121: the UPDATE of complete_scrape_run raises (the store fails)
CompleteRunFails ==
    /\ pc = "complete"
    /\ error' = OperationalError
    /\ pc' = "except"
    /\ UNCHANGED <<tables, committed, now, run_id, open_ad_ids_before, scraped,
                   idx, scraped_at, new_count, scraped_ad_ids, closed_count,
                   call, ret>>

\* Lines 129-133: fail_scrape_run(conn, run_id, str(e)); conn.commit(); raise
HandleFailure ==
    /\ pc = "except"
    /\ scrape_runs' = fail_scrape_run(scrape_runs, run_id, error, now)
    /\ committed' = [Tables EXCEPT !.scrape_runs = scrape_runs']
    /\ pc' = "raised"
    /\ UNCHANGED <<listings, listing_status, snapshots, now, locals, call, ret>>

Next ==
    \/ StartRun
    \/ ScrapeReturns
    \/ ScrapeRaises
    \/ SkipListing
    \/ ProcessListing
    \/ DuplicateSnapshot
    \/ StatusInsertFails
    \/ MarkClosed
    \/ CompleteRun
    \/ CompleteRunFails
    \/ HandleFailure

Spec == Init /\ [][Next]_vars

----------------------------------------------------------------------------
(* The store called directly, operation by operation, in any order *)

\* datetime.utcnow() moves on between two calls
Tick ==
    /\ now < MaxTime
    /\ now' = now + 1
    /\ call' = NoCall
    /\ ret' = NULL
    /\ UNCHANGED <<tables, committed, pc, locals>>

\* get_or_create_listing(conn, ad_id, url)
GetOrCreateListing ==
    \E ad_id \in AdIds, url \in Urls :
        LET got == get_or_create_listing(listings, listing_status, ad_id, url, now)
        IN  /\ listings' = got.listings
            /\ listing_status' = got.listing_status
            /\ call' = [op |-> "get_or_create_listing", ad_id |-> ad_id, url |-> url]
            /\ ret' = got.id
            /\ UNCHANGED <<snapshots, scrape_runs, committed, now, pc, locals>>

\* insert_snapshot(conn, listing_id, scraped_at, ...) with price_per_sqm left at
\* its default None: the row is inserted
InsertSnapshot ==
    \E l \in listings, price_value \in Prices :
        /\ Cardinality(snapshots) < MaxSnapshots
        /\ ~SnapshotExists(snapshots, l.id, now)
        /\ snapshots' = insert_snapshot(snapshots, l.id, now, price_value, NULL)
        /\ call' = [op |-> "insert_snapshot", listing_id |-> l.id]
        /\ ret' = NULL
        /\ UNCHANGED <<listings, listing_status, scrape_runs, committed, now, pc, locals>>

\* insert_snapshot(conn, listing_id, scraped_at, ...): sqlite3.IntegrityError
InsertSnapshotRaises ==
    \E l \in listings :
        /\ SnapshotExists(snapshots, l.id, now)
        /\ call' = [op |-> "insert_snapshot", listing_id |-> l.id]
        /\ ret' = IntegrityError
        /\ UNCHANGED <<tables, committed, now, pc, locals>>

\* mark_listings_closed(conn, ad_ids, closed_at)
MarkListingsClosed ==
    \E ad_ids \in SUBSET AdIds :
        LET marked == mark_listings_closed(listings, listing_status, ad_ids, now)
        IN  /\ listing_status' = marked.listing_status
            /\ call' = [op |-> "mark_listings_closed", ad_ids |-> ad_ids]
            /\ ret' = marked.count
            /\ UNCHANGED <<listings, snapshots, scrape_runs, committed, now, pc, locals>>

StoreNext ==
    \/ Tick
    \/ GetOrCreateListing
    \/ InsertSnapshot
    \/ InsertSnapshotRaises
    \/ MarkListingsClosed

StoreSpec == Init /\ [][StoreNext]_vars

----------------------------------------------------------------------------
(* Vocabulary of the properties *)

\* The cycle has ended: run_scrape returned, or re-raised the exception
CycleEnded == pc \in {"returned", "raised"}

\* The non-empty ad_ids of the scrape result
ScrapedSet == {scraped[i].ad_id : i \in 1..Len(scraped)} \ {EmptyAdId}

\* The listing_status rows of the listing with this ad_id
StatusRows(ls, st, ad_id) ==
    {s \in st : \E l \in ls : l.ad_id = ad_id /\ l.id = s.listing_id}

\* The ad_ids of the listings in status closed
ClosedAdIds(ls, st) ==
    {l.ad_id : l \in {m \in ls : \E s \in st : s.listing_id = m.id /\ s.status = "closed"}}

\* The committed row of the run of this cycle
ThisRun == CHOOSE r \in committed.scrape_runs : r.id = run_id

RunFailed(r) == r.status \notin {"running", "completed"}

----------------------------------------------------------------------------
(* C1 *)

\* C1: when the scraper returns an empty list while listings are open, the cycle
\* ends as a failed run and every listing open before the cycle is still open.
C1_EmptyScrapeFailsCycle ==
    (CycleEnded /\ scraped = <<>> /\ open_ad_ids_before # {})
        => /\ RunFailed(ThisRun)
           /\ open_ad_ids_before \subseteq
                  get_open_listing_ad_ids(committed.listings, committed.listing_status)

----------------------------------------------------------------------------
(* C2 *)

\* C2: after a completed cycle with capture time scraped_at, a listing that was open
\* before the cycle is closed if and only if its ad_id is not among the non-empty
\* ad_ids of the scrape result; each listing the cycle closed has closed_at =
\* scraped_at; the closed_count of the cycle, and of its run record, is the number
\* of listings it closed.
C2_ClosedIffNotScraped ==
    pc = "returned" =>
        LET closed == ClosedAdIds(committed.listings, committed.listing_status)
            byCycle == open_ad_ids_before \cap closed
        IN  /\ \A a \in open_ad_ids_before : (a \in closed) <=> (a \notin ScrapedSet)
            /\ \A a \in byCycle :
                   \A s \in StatusRows(committed.listings, committed.listing_status, a) :
                       s.status = "closed" /\ s.closed_at = scraped_at
            /\ closed_count = Cardinality(byCycle)
            /\ ThisRun.closed_listings = Cardinality(byCycle)

\* C2 witness: cycle 1 ingested {A, B}, cycle 2 ingested {A}: A is open with two
\* snapshots, B is closed at the capture time of cycle 2, closed_count = 1 and
\* new_count = 0.
C2_Witness ==
    /\ pc = "returned"
    /\ open_ad_ids_before = {"A", "B"}
    /\ ScrapedSet = {"A"}
    /\ get_open_listing_ad_ids(committed.listings, committed.listing_status) = {"A"}
    /\ \E l \in committed.listings :
           /\ l.ad_id = "A"
           /\ Cardinality({s \in committed.snapshots : s.listing_id = l.id}) = 2
    /\ \A s \in StatusRows(committed.listings, committed.listing_status, "B") :
           s.status = "closed" /\ s.closed_at = scraped_at
    /\ ThisRun.closed_listings = 1
    /\ ThisRun.new_listings = 0

----------------------------------------------------------------------------
(* C3 *)

\* C3: get_or_create_listing is idempotent on ad_id: called with the ad_id of a
\* listing the store holds, with any url, it returns that listing's id and creates
\* no Listing and no Status row; no operation of the store removes a listing or
\* changes its id, and no two listings share an ad_id.
C3_GetOrCreateIdempotent ==
    [][/\ \A l \in listings :
              (call'.op = "get_or_create_listing" /\ call'.ad_id = l.ad_id)
                  => /\ ret' = l.id
                     /\ listings' = listings
                     /\ listing_status' = listing_status
       /\ \A l \in listings : \E m \in listings' : m.ad_id = l.ad_id /\ m.id = l.id
       /\ \A l, m \in listings' : l.ad_id = m.ad_id => l.id = m.id]_vars

\* C3 witness: get_or_create_listing was called with the ad_id of a listing stored
\* under another url, and returned the id of that listing.
C3_Witness ==
    /\ call.op = "get_or_create_listing"
    /\ \E l \in listings : l.ad_id = call.ad_id /\ l.url # call.url /\ ret = l.id
    /\ Cardinality(listings) = 2

----------------------------------------------------------------------------
(* C4 *)

\* C4: in every committed state every Listing has exactly one Listing Status row and
\* every Status row belongs to a Listing, whichever statement of a cycle failed.
C4_OneStatusPerCommittedListing ==
    /\ \A l \in committed.listings :
           Cardinality({s \in committed.listing_status : s.listing_id = l.id}) = 1
    /\ \A s \in committed.listing_status :
           \E l \in committed.listings : l.id = s.listing_id

----------------------------------------------------------------------------
(* C5 *)

\* C5: across sequential cycles a listing's status only moves from open to closed:
\* every status row stays, and a closed row keeps its status and its closed_at,
\* whether or not its ad_id is in a later scrape.
C5_ClosedStaysClosed ==
    [][\A s \in listing_status :
           /\ \E t \in listing_status' : t.listing_id = s.listing_id
           /\ s.status = "closed" => s \in listing_status']_vars

\* C5 witness: a listing closed by an earlier cycle was scraped again by a cycle
\* that completed: it has a snapshot of this cycle and is still closed as of then.
C5_Witness ==
    /\ pc = "returned"
    /\ \E l \in committed.listings :
           /\ l.ad_id \in ScrapedSet
           /\ SnapshotExists(committed.snapshots, l.id, scraped_at)
           /\ \E s \in committed.listing_status :
                  /\ s.listing_id = l.id
                  /\ s.status = "closed"
                  /\ s.closed_at < scraped_at
    /\ \E l \in committed.listings :
           /\ l.ad_id \notin ScrapedSet
           /\ \E s \in committed.listing_status :
                  /\ s.listing_id = l.id
                  /\ s.status = "closed"
                  /\ s.closed_at < scraped_at

----------------------------------------------------------------------------
(* C6 *)

\* C6: mark_listings_closed affects only listings that are open: a listing already
\* closed keeps its closed_at and is not counted in the result, and with an empty
\* set nothing changes and the result is 0.
C6_MarkClosedOnlyOpen ==
    [][call'.op = "mark_listings_closed" =>
           /\ \A s \in listing_status : s.status = "closed" => s \in listing_status'
           /\ ret' = Cardinality({s \in ClosedRows(listings, listing_status, call'.ad_ids) :
                                      s.status = "open"})
           /\ call'.ad_ids = {} => (listing_status' = listing_status /\ ret' = 0)]_vars

----------------------------------------------------------------------------
(* C7 *)

\* C7: a duplicate (listing, capture timestamp) raised by insert_snapshot for one
\* scraped entry does not fail the cycle: the exception reaches no handler of
\* run_scrape and no run is recorded as failed for it.
C7_DuplicateSnapshotSkipped ==
    /\ ~(pc \in {"except", "raised"} /\ error = IntegrityError)
    /\ \A r \in committed.scrape_runs : r.status # FailedStatus(IntegrityError)

----------------------------------------------------------------------------
(* C8 *)

\* C8: when a cycle fails after the run-start commit, the commit of the failure
\* leaves the committed Listing, Snapshot and Listing Status rows as they were
\* committed before the cycle began; only the run record changes, to failed.
C8_FailedCycleCommitsNothing ==
    [][pc = "except" =>
           /\ committed'.listings = committed.listings
           /\ committed'.snapshots = committed.snapshots
           /\ committed'.listing_status = committed.listing_status
           /\ \A r \in committed'.scrape_runs :
                  IF r.id = run_id THEN RunFailed(r) ELSE r \in committed.scrape_runs]_vars

----------------------------------------------------------------------------
(* C9 *)

\* C9: when scrape_listings raises, the cycle changes no listing, snapshot or status,
\* in the connection or committed; the run record of the cycle is committed as
\* failed with the reason, and the exception is re-raised.
C9_ScrapeFailureAborts ==
    [][/\ (pc = "scrape" /\ pc' = "except")
           => (error' = ScrapeError /\ UNCHANGED <<listings, listing_status, snapshots>>)
       /\ (pc = "except" /\ error = ScrapeError)
           => /\ pc' = "raised"
              /\ UNCHANGED <<listings, listing_status, snapshots>>
              /\ committed'.listings = committed.listings
              /\ committed'.snapshots = committed.snapshots
              /\ committed'.listing_status = committed.listing_status
              /\ \E r \in committed'.scrape_runs :
                     /\ r.id = run_id
                     /\ r.status = "failed: scrape failed"
                     /\ r.completed_at # NULL]_vars

\* C9 witness: the scraper raised while a listing was open; the error was re-raised
\* and the listing is open.
C9_Witness ==
    /\ pc = "raised"
    /\ error = ScrapeError
    /\ open_ad_ids_before # {}
    /\ get_open_listing_ad_ids(committed.listings, committed.listing_status)
           = open_ad_ids_before
    /\ RunFailed(ThisRun)

----------------------------------------------------------------------------
(* C10 *)

\* C10: a scraped entry with an empty ad_id leaves the store and the scraped-id set
\* unchanged and is not counted as new, yet the listings_found of a completed run
\* counts every entry of the scrape result.
C10_EmptyAdIdIgnoredButCounted ==
    [][/\ (pc = "loop" /\ idx <= Len(scraped) /\ scraped[idx].ad_id = EmptyAdId)
           => /\ UNCHANGED <<tables, committed, scraped_ad_ids, new_count>>
              /\ idx' = idx + 1
              /\ pc' = "loop"
       /\ pc' = "returned" =>
              \E r \in committed'.scrape_runs :
                  r.id = run_id /\ r.listings_found = Len(scraped)]_vars

\* C10 witness: a completed cycle whose scrape result held an entry without ad_id
\* and an entry with one: two entries found, one snapshot taken.
C10_Witness ==
    /\ pc = "returned"
    /\ \E i \in 1..Len(scraped) : scraped[i].ad_id = EmptyAdId
    /\ Cardinality(ScrapedSet) = 1
    /\ ThisRun.listings_found = 2
    /\ Cardinality({s \in committed.snapshots : s.scraped_at = scraped_at}) = 1
    /\ \A l \in committed.listings : l.ad_id # EmptyAdId

----------------------------------------------------------------------------
(* The Run Tracker called directly: start_scrape_run, complete_scrape_run and *)
(* fail_scrape_run on any run id, in any order                               *)

MaxTrackedRuns == 2   \* rows of scrape_runs when the Run Tracker is called directly

\* (listings_found, new_listings, closed_listings) a caller may report
RunCounters == {<<0, 0, 0>>, <<2, 1, 1>>}

\* start_scrape_run(conn)
StartScrapeRun ==
    /\ Cardinality(scrape_runs) < MaxTrackedRuns
    /\ scrape_runs' = start_scrape_run(scrape_runs, now)
    /\ call' = [op |-> "start_scrape_run"]
    /\ ret' = NextId(scrape_runs)
    /\ UNCHANGED <<listings, listing_status, snapshots, committed, now, pc, locals>>

\* complete_scrape_run(conn, run_id, listings_found, new_listings, closed_listings)
CompleteScrapeRun ==
    \E r \in scrape_runs, c \in RunCounters :
        /\ scrape_runs' = complete_scrape_run(scrape_runs, r.id, c[1], c[2], c[3], now)
        /\ call' = [op |-> "complete_scrape_run", run_id |-> r.id]
        /\ ret' = NULL
        /\ UNCHANGED <<listings, listing_status, snapshots, committed, now, pc, locals>>

\* fail_scrape_run(conn, run_id, error)
FailScrapeRun ==
    \E r \in scrape_runs :
        /\ scrape_runs' = fail_scrape_run(scrape_runs, r.id, ScrapeError, now)
        /\ call' = [op |-> "fail_scrape_run", run_id |-> r.id]
        /\ ret' = NULL
        /\ UNCHANGED <<listings, listing_status, snapshots, committed, now, pc, locals>>

RunNext ==
    \/ Tick
    \/ StartScrapeRun
    \/ CompleteScrapeRun
    \/ FailScrapeRun

RunSpec == Init /\ [][RunNext]_vars

----------------------------------------------------------------------------
(* C11 *)

\* C11: a run record's terminal state is final: once its status is completed or
\* failed, no complete_scrape_run or fail_scrape_run on its id changes its status,
\* its completion time or its counters.
C11_TerminalRunIsFinal ==
    [][\A r \in scrape_runs : r.status # "running" => r \in scrape_runs']_vars

----------------------------------------------------------------------------
(* C12 *)

----------------------------------------------------------------------------
(* C13 *)

\* The last call raised e (ret holds an integer after a call that returned)
Raised(e) ==
    ToString(ret) = ToString(e)

\* C13: the snapshot history is append-only and unique per (listing, capture
\* timestamp): every snapshot stays with its fields unchanged, no two snapshots of
\* one listing share a capture timestamp, and an insert_snapshot that would
\* duplicate (listing_id, scraped_at) raises and leaves the snapshots unchanged.
C13_SnapshotsAppendOnlyUnique ==
    [][/\ snapshots \subseteq snapshots'
       /\ \A s, t \in snapshots' :
              (s.listing_id = t.listing_id /\ s.scraped_at = t.scraped_at) => s = t
       /\ (call'.op = "insert_snapshot" /\ SnapshotExists(snapshots, call'.listing_id, now))
              => (ret' = IntegrityError /\ snapshots' = snapshots)
       /\ (call'.op = "insert_snapshot" /\ ~SnapshotExists(snapshots, call'.listing_id, now))
              => (ret' = NULL /\ Cardinality(snapshots') = Cardinality(snapshots) + 1)]_vars

\* C13 witness: a listing has two snapshots and insert_snapshot was called for it
\* a second time with the latest capture timestamp, and raised.
C13_Witness ==
    /\ call.op = "insert_snapshot"
    /\ Raised(IntegrityError)
    /\ Cardinality({s \in snapshots : s.listing_id = call.listing_id}) = 2
    /\ SnapshotExists(snapshots, call.listing_id, now)

----------------------------------------------------------------------------
(* C14 *)

\* The ad_ids of the listings in status open
OpenAdIds(ls, st) ==
    {l.ad_id : l \in {m \in ls : \E s \in st : s.listing_id = m.id /\ s.status = "open"}}

\* The scraped entries that count as new: a non-empty ad_id outside the open set
NewEntries(open_before) ==
    {i \in 1..Len(scraped) :
        scraped[i].ad_id # EmptyAdId /\ scraped[i].ad_id \notin open_before}

\* C14: the set the cycle compares against is the set of ad_ids open in the store
\* when the cycle began, and the new_listings of a completed cycle is the number of
\* scraped entries with a non-empty ad_id outside that set: an entry of a listing
\* that was open is not counted, an entry of a closed or unknown listing is.
C14_NewCountAgainstOpenSet ==
    /\ pc \in {"loop", "complete"}
           => open_ad_ids_before = OpenAdIds(committed.listings, committed.listing_status)
    /\ pc = "returned"
           => ThisRun.new_listings = Cardinality(NewEntries(open_ad_ids_before))

\* C14 witness: a completed cycle scraped the ad_id of a listing that an earlier
\* cycle had closed, together with nothing else, and reports one new listing.
C14_Witness ==
    /\ pc = "returned"
    /\ Len(scraped) = 1
    /\ scraped[1].ad_id \in ClosedAdIds(listings, listing_status)
    /\ \E l \in listings : l.ad_id = scraped[1].ad_id /\ l.first_seen_at < ThisRun.started_at
    /\ ThisRun.new_listings = 1

----------------------------------------------------------------------------
(* The scraper's normalisation: scraper.py, parse_price_value, parse_size_value,
   extract_listings_from_search_result. A string is a sequence of characters. *)

MaxPriceLen == 3   \* characters of a price string given to parse_price_value
MaxSizeLen == 2    \* characters of a size attribute

Digits == {"0", "1", "2", "8"}
DigitValue == [c \in Digits |-> CASE c = "0" -> 0 [] c = "1" -> 1 [] c = "2" -> 2 [] c = "8" -> 8]

PriceChars == {"€", " ", ".", ",", "0", "1", "2", "x"}
PriceStrings == UNION {[1..n -> PriceChars] : n \in 0..MaxPriceLen}

SizeChars == {"0", "8", ".", ",", "x"}
SizeStrings == UNION {[1..n -> SizeChars] : n \in 0..MaxSizeLen}

\* The PRICE and PRICE_FOR_DISPLAY attributes of an item (absent reads as "")
PriceAttrs == {<<>>, <<"0">>, <<"1">>, <<"x">>, <<"€", " ", "0">>, <<"1", "0", "0">>}

\* int() of a string of decimal digits
RECURSIVE DecimalValue(_)
DecimalValue(ds) ==
    IF ds = <<>> THEN 0
    ELSE 10 * DecimalValue(SubSeq(ds, 1, Len(ds) - 1)) + DigitValue[ds[Len(ds)]]

IsDigit(c) == c \in Digits

\* parse_price_value(price_str): None on "" and on ValueError of int()
parse_price_value(price_str) ==
    IF price_str = <<>> THEN NULL
    ELSE LET Kept(c) == c \notin {"€", " ", ".", ","}
             cleaned == SelectSeq(price_str, Kept)
         IN  IF cleaned # <<>> /\ \A i \in 1..Len(cleaned) : IsDigit(cleaned[i])
             THEN DecimalValue(cleaned)
             ELSE NULL

\* A size is held in units of 1/SizeScale, enough for every decimal of a size string
SizeScale == 10 ^ MaxSizeLen

\* parse_size_value(size_str): float() after "," became ".", None on "" and on ValueError
parse_size_value(size_str) ==
    IF size_str = <<>> THEN NULL
    ELSE LET replaced == [i \in 1..Len(size_str) |->
                             IF size_str[i] = "," THEN "." ELSE size_str[i]]
             points == {i \in 1..Len(replaced) : replaced[i] = "."}
             point == IF points = {} THEN Len(replaced) + 1 ELSE CHOOSE i \in points : TRUE
             whole == SubSeq(replaced, 1, point - 1)
             frac == SubSeq(replaced, point + 1, Len(replaced))
         IN  IF /\ Cardinality(points) <= 1
                /\ \A i \in 1..Len(replaced) : replaced[i] = "." \/ IsDigit(replaced[i])
                /\ \E i \in 1..Len(replaced) : IsDigit(replaced[i])
             THEN DecimalValue(whole) * SizeScale
                  + DecimalValue(frac) * 10 ^ (MaxSizeLen - Len(frac))
             ELSE NULL

\* Python truth of an Optional number: None and 0 are false
Truthy(v) == v # NULL /\ v # 0

\* a or b
Or(a, b) == IF Truthy(a) THEN a ELSE b

\* round(n / d, 2) in hundredths, n >= 0 and d > 0; at a tie of the exact quotient the
\* result follows the binary value of the float quotient, either neighbour
Round2(n, d) ==
    LET q == (100 * n) \div d
        r == (100 * n) % d
    IN  IF 2 * r < d THEN {q}
        ELSE IF 2 * r > d THEN {q + 1}
        ELSE {q, q + 1}

\* Lines 96-102: price_value, size_value and the price_per_sqm values the item can get
PricePerSqm(price_value, size_value) ==
    IF Truthy(price_value) /\ Truthy(size_value) /\ size_value > 0
    THEN Round2(price_value * SizeScale, size_value)
    ELSE {NULL}

\* A function that reads no state is called once in a behaviour
NotCalled == call = NoCall

\* parse_price_value(price_str)
ParsePriceValue ==
    \E price_str \in PriceStrings :
        /\ NotCalled
        /\ call' = [op |-> "parse_price_value", price_str |-> price_str]
        /\ ret' = parse_price_value(price_str)
        /\ UNCHANGED <<tables, committed, now, pc, locals>>

\* extract_listings_from_search_result on one item of advertSummary: the Listing
\* appended to results, which scrape_listings hands to run_scrape
ExtractListing ==
    \E price_raw \in PriceAttrs, price_display \in PriceAttrs, size \in SizeStrings :
        LET price_value == Or(parse_price_value(price_raw), parse_price_value(price_display))
            size_value == parse_size_value(size)
        IN  \E price_per_sqm \in PricePerSqm(price_value, size_value) :
                /\ NotCalled
                /\ call' = [op |-> "extract_listings_from_search_result",
                            price_raw |-> price_raw, price_display |-> price_display,
                            size |-> size]
                /\ ret' = NULL
                /\ scraped' = <<[price_value |-> price_value, size_sqm_value |-> size_value,
                                 price_per_sqm |-> price_per_sqm]>>
                /\ UNCHANGED <<tables, committed, now, pc, run_id, open_ad_ids_before,
                               idx, scraped_at, new_count, scraped_ad_ids, closed_count,
                               error>>

ScraperNext == ParsePriceValue \/ ExtractListing

ScraperSpec == Init /\ [][ScraperNext]_vars

----------------------------------------------------------------------------
(* C15 *)

\* C15: an extracted listing has a price_per_sqm exactly when its price_value is
\* present, its size_sqm_value is present and the size is greater than 0, and the
\* price_per_sqm is then price / size to the nearest hundredth.
C15_PricePerAreaIffPriceAndSize ==
    call.op = "extract_listings_from_search_result" =>
        LET listing == scraped[1]
            present == /\ listing.price_value # NULL
                       /\ listing.size_sqm_value # NULL
                       /\ listing.size_sqm_value > 0
        IN  /\ listing.price_per_sqm # NULL <=> present
            /\ present =>
                   LET exact == 100 * listing.price_value * SizeScale
                       got == listing.price_per_sqm * listing.size_sqm_value
                   IN  /\ 2 * (got - exact) <= listing.size_sqm_value
                       /\ 2 * (exact - got) <= listing.size_sqm_value

----------------------------------------------------------------------------
(* C16 *)

\* The position of the first "," of a price string, Len + 1 when it has none
CommaAt(price_str) ==
    LET commas == {i \in 1..Len(price_str) : price_str[i] = ","}
    IN  IF commas = {} THEN Len(price_str) + 1
        ELSE CHOOSE i \in commas : \A j \in commas : i <= j

\* A price in the European format: currency symbol, spaces and digit groups
\* separated by ".", then optionally "," and decimal digits
EuropeanPrice(price_str) ==
    LET c == CommaAt(price_str)
    IN  /\ \A i \in 1..(c - 1) : price_str[i] \in {"€", " ", "."} \/ IsDigit(price_str[i])
        /\ \E i \in 1..(c - 1) : IsDigit(price_str[i])
        /\ \A i \in (c + 1)..Len(price_str) : IsDigit(price_str[i])

\* The integer formed by the digits before the ","
IntegerPart(price_str) ==
    DecimalValue(SelectSeq(SubSeq(price_str, 1, CommaAt(price_str) - 1), IsDigit))

\* C16: parse_price_value returns the integer formed by the digits before the ","
\* of a price in the European format, and nothing for a string without a digit.
C16_DecimalPartDropped ==
    call.op = "parse_price_value" =>
        /\ EuropeanPrice(call.price_str) => ret = IntegerPart(call.price_str)
        /\ (\A i \in 1..Len(call.price_str) : ~IsDigit(call.price_str[i])) => ret = NULL

----------------------------------------------------------------------------
(* The stores that the read queries of db.py are asked about: the tables after
   a history of cycles of run_scrape, written with the operators of the store.
   A query reads the store and leaves it as it is, so one query is made in a
   behaviour. *)

\* What one cycle scrapes of one ad: nothing, or an entry with these fields
Absent == [present |-> FALSE, price_value |-> NULL, price_per_sqm |-> NULL]
Entry(price_value, price_per_sqm) ==
    [present |-> TRUE, price_value |-> price_value, price_per_sqm |-> price_per_sqm]

\* The cycles over the ads of a sequence, options[a] being what a cycle may scrape of a.
\* A cycle whose process was killed has status running and has committed no entry.
Cycles(ads, options, statuses) ==
    LET range == {ads[i] : i \in 1..Len(ads)}
        entries == {f \in [range -> UNION {options[a] : a \in range}] :
                        \A a \in range : f[a] \in options[a]}
    IN  {[status |-> st, entries |-> e] : st \in statuses \ {"running"}, e \in entries}
        \cup {[status |-> st, entries |-> [a \in range |-> Absent]] :
                  st \in statuses \cap {"running"}}

\* scrape_listings: the list a cycle scrapes, in the order of ads
RECURSIVE ScrapedOf(_, _)
ScrapedOf(ads, entries) ==
    IF ads = <<>> THEN <<>>
    ELSE LET e == entries[Head(ads)]
             rest == ScrapedOf(Tail(ads), entries)
         IN  IF e.present
             THEN <<[ad_id |-> Head(ads), url |-> "u1", price_value |-> e.price_value,
                     price_per_sqm |-> e.price_per_sqm]>> \o rest
             ELSE rest

\* scrape.py lines 79-105: the loop over a scrape result in which no statement raises
RECURSIVE WriteListings(_, _, _)
WriteListings(T, result, at) ==
    IF result = <<>> THEN T
    ELSE LET listing == Head(result)
             got == get_or_create_listing(T.listings, T.listing_status, listing.ad_id,
                                          listing.url, at)
         IN  WriteListings([T EXCEPT !.listings = got.listings,
                                     !.listing_status = got.listing_status,
                                     !.snapshots = insert_snapshot(@, got.id, at,
                                                                   listing.price_value,
                                                                   listing.price_per_sqm)],
                           Tail(result), at)

\* run_scrape as the k-th cycle on the tables T: it starts at time 2k - 1 and reads
\* scraped_at at time 2k. It returns (completed), or complete_scrape_run raises and
\* the handler commits (failed), or the process is killed after the first commit (running).
RunScrape(T, result, status, k) ==
    LET at == 2 * k
        id == NextId(T.scrape_runs)
        started == [T EXCEPT !.scrape_runs = start_scrape_run(@, at - 1)]
        open_before == get_open_listing_ad_ids(T.listings, T.listing_status)
        W == WriteListings(started, result, at)
        new == Cardinality({i \in 1..Len(result) : IsNew(result[i].ad_id, open_before)})
        closed_ad_ids == open_before \ {result[i].ad_id : i \in 1..Len(result)}
        marked == mark_listings_closed(W.listings, W.listing_status, closed_ad_ids, at)
        M == IF closed_ad_ids # {}
             THEN [tables |-> [W EXCEPT !.listing_status = marked.listing_status],
                   count |-> marked.count]
             ELSE [tables |-> W, count |-> 0]
    IN  CASE status = "running" -> started
          [] status = "completed" ->
                 [M.tables EXCEPT !.scrape_runs =
                      complete_scrape_run(@, id, Len(result), new, M.count, at)]
          [] status = "failed" ->
                 [M.tables EXCEPT !.scrape_runs = fail_scrape_run(@, id, OperationalError, at)]

\* The tables after the cycles of a history, run one after the other
RECURSIVE StoreAfter(_, _)
StoreAfter(ads, history) ==
    IF history = <<>>
    THEN [listings |-> {}, listing_status |-> {}, snapshots |-> {}, scrape_runs |-> {}]
    ELSE LET cycle == history[Len(history)]
         IN  RunScrape(StoreAfter(ads, SubSeq(history, 1, Len(history) - 1)),
                       ScrapedOf(ads, cycle.entries), cycle.status, Len(history))

\* The state in which the program is idle on the tables T
Idle(T) ==
    /\ listings = T.listings
    /\ listing_status = T.listing_status
    /\ snapshots = T.snapshots
    /\ scrape_runs = T.scrape_runs
    /\ committed = T
    /\ now = 2 * Cardinality(T.scrape_runs)
    /\ pc = "start"
    /\ run_id = 0
    /\ open_ad_ids_before = {}
    /\ scraped = <<>>
    /\ idx = 0
    /\ scraped_at = 0
    /\ new_count = 0
    /\ scraped_ad_ids = {}
    /\ closed_count = 0
    /\ error = ""
    /\ call = NoCall
    /\ ret = NULL

----------------------------------------------------------------------------
(* The statistics and detail queries: db.py, get_overall_price_stats and
   get_listing_details *)

MaxHistory == 2    \* cycles that wrote the store the queries read

StatsAds == <<"A", "B", "C">>
StatsOptions ==
    [a \in {"A", "B", "C"} |->
        IF a = "C" THEN {Absent, Entry(100, 5)}
        ELSE {Absent, Entry(NULL, NULL), Entry(100, 5), Entry(101, 5)}]

StatsStores ==
    {StoreAfter(StatsAds, h) :
        h \in SeqsUpTo(Cycles(StatsAds, StatsOptions, {"completed"}), MaxHistory)}

\* JOIN (SELECT listing_id, MAX(scraped_at) ... GROUP BY listing_id) latest
\*   ON s.listing_id = latest.listing_id AND s.scraped_at = latest.max_scraped
LatestSnapshots(snaps) ==
    {s \in snaps : \A t \in snaps : t.listing_id = s.listing_id => t.scraped_at <= s.scraped_at}

\* ORDER BY price_value: the prices of the rows in ascending order
RECURSIVE OrderByPrice(_)
OrderByPrice(rows) ==
    IF rows = {} THEN <<>>
    ELSE LET first == CHOOSE r \in rows : \A q \in rows : r.price_value <= q.price_value
         IN  <<first.price_value>> \o OrderByPrice(rows \ {first})

RECURSIVE Sum(_)
Sum(xs) == IF xs = <<>> THEN 0 ELSE Head(xs) + Sum(Tail(xs))

\* round(n / d) of Python 3 on the float n / d, n >= 0 and d > 0, a tie going up
RoundHalfUp(n, d) ==
    LET q == n \div d
        r == n % d
    IN  IF 2 * r < d THEN q ELSE q + 1

\* round(n / d) of Python 3 on the float n / d, n >= 0 and d > 0: a tie is a
\* quotient x.5, which a float holds exactly, and goes to the even neighbour
Round(n, d) ==
    LET q == n \div d
        r == n % d
    IN  IF 2 * r < d THEN q
        ELSE IF 2 * r > d THEN q + 1
        ELSE IF q % 2 = 0 THEN q ELSE q + 1

\* get_overall_price_stats(conn)
get_overall_price_stats(snaps) ==
    LET rows == {s \in LatestSnapshots(snaps) : s.price_value # NULL}
        prices == OrderByPrice(rows)
        price_per_sqms == OrderByPrice({[id |-> s.id, price_value |-> s.price_per_sqm] :
                                           s \in {r \in rows : Truthy(r.price_per_sqm)}})
        n == Len(prices)
    IN  IF rows = {}
        THEN [median_price |-> 0, avg_price |-> 0, avg_price_per_sqm |-> 0, count |-> 0]
        ELSE [median_price |-> IF n % 2 = 0
                               THEN Round(prices[n \div 2] + prices[n \div 2 + 1], 2)
                               ELSE Round(prices[n \div 2 + 1], 1),
              avg_price |-> Round(Sum(prices), n),
              avg_price_per_sqm |-> IF price_per_sqms # <<>>
                                    THEN Round(Sum(price_per_sqms), Len(price_per_sqms))
                                    ELSE 0,
              count |-> n]

\* get_listing_details(conn, listing_id): the rows of the join. A listing with
\* snapshots has one row for each of them, since the join to latest is a LEFT JOIN
\* that filters nothing; a listing without snapshots has one row of NULLs.
ListingDetailRows(ls, st, snaps, listing_id) ==
    LET joined == {j \in [l : ls, s : st] :
                       j.l.id = listing_id /\ j.s.listing_id = j.l.id}
        Row(j, at, price) ==
            [id |-> j.l.id, ad_id |-> j.l.ad_id, status |-> j.s.status,
             scraped_at |-> at, price_value |-> price]
    IN  UNION {IF \E n \in snaps : n.listing_id = j.l.id
               THEN {Row(j, n.scraped_at, n.price_value) :
                         n \in {m \in snaps : m.listing_id = j.l.id}}
               ELSE {Row(j, NULL, NULL)} : j \in joined}

\* rows = get_overall_price_stats(conn)
GetOverallPriceStats ==
    /\ NotCalled
    /\ call' = [op |-> "get_overall_price_stats"]
    /\ ret' = get_overall_price_stats(snapshots)
    /\ UNCHANGED <<tables, committed, now, pc, locals>>

\* get_listing_details(conn, listing_id) of a listing id of the store: fetchone()
\* of a SELECT without ORDER BY gives any one of the rows
GetListingDetails ==
    \E listing_id \in 1..NextId(listings) :
        LET rows == ListingDetailRows(listings, listing_status, snapshots, listing_id)
        IN  /\ NotCalled
            /\ rows # {}
            /\ call' = [op |-> "get_listing_details", listing_id |-> listing_id]
            /\ ret' \in rows
            /\ UNCHANGED <<tables, committed, now, pc, locals>>

\* get_listing_details(conn, listing_id): fetchone() gives None, no row is selected
GetListingDetailsNone ==
    \E listing_id \in 1..NextId(listings) :
        /\ NotCalled
        /\ ListingDetailRows(listings, listing_status, snapshots, listing_id) = {}
        /\ call' = [op |-> "get_listing_details", listing_id |-> listing_id]
        /\ ret' = NULL
        /\ UNCHANGED <<tables, committed, now, pc, locals>>

\* get_all_listings_with_latest_snapshot(conn): the rows of the same join for every
\* listing. WHERE s.id IS NOT NULL OR latest.listing_id IS NULL keeps every row of a
\* listing with snapshots and the row of NULLs of a listing without. The rows differ
\* from one another, so the list is given as the set of its rows.
get_all_listings_with_latest_snapshot(ls, st, snaps) ==
    UNION {ListingDetailRows(ls, st, snaps, l.id) : l \in ls}

\* listings = get_all_listings_with_latest_snapshot(conn)
GetAllListings ==
    /\ NotCalled
    /\ call' = [op |-> "get_all_listings_with_latest_snapshot"]
    /\ ret' = get_all_listings_with_latest_snapshot(listings, listing_status, snapshots)
    /\ UNCHANGED <<tables, committed, now, pc, locals>>

StatsInit == \E T \in StatsStores : Idle(T)

StatsNext ==
    GetOverallPriceStats \/ GetListingDetails \/ GetListingDetailsNone \/ GetAllListings

StatsSpec == StatsInit /\ [][StatsNext]_vars

----------------------------------------------------------------------------
(* C17 *)

\* The latest snapshot of every listing that has one, when its price is not NULL
LatestPriced ==
    {s \in snapshots :
        /\ s.price_value # NULL
        /\ ~\E t \in snapshots : t.listing_id = s.listing_id /\ t.scraped_at > s.scraped_at}

\* The k-th smallest price of the latest priced snapshots, 1 <= k <= their number
KthPrice(k) ==
    CHOOSE v \in {s.price_value : s \in LatestPriced} :
        /\ Cardinality({s \in LatestPriced : s.price_value < v}) < k
        /\ Cardinality({s \in LatestPriced : s.price_value <= v}) >= k

\* The statistics over no priced snapshot
ZeroStats == [median_price |-> 0, avg_price |-> 0, avg_price_per_sqm |-> 0, count |-> 0]

\* C17 as claimed: count is the number of listings whose latest snapshot is priced,
\* median_price is the central price for an odd count and the mean of the two
\* central prices for an even count, and the result is all zero without such a snapshot.
C17_MedianOfLatestPrices ==
    call.op = "get_overall_price_stats" =>
        LET n == Cardinality(LatestPriced)
        IN  /\ ret.count = n
            /\ n = 0 => ret = ZeroStats
            /\ n % 2 = 1 => ret.median_price = KthPrice((n + 1) \div 2)
            /\ (n > 0 /\ n % 2 = 0) =>
                   2 * ret.median_price = KthPrice(n \div 2) + KthPrice(n \div 2 + 1)

\* C17 as amended: for an even count median_price is the mean of the two central
\* prices rounded to a whole number, a mean of x.5 going to the even neighbour.
C17_MedianRounded ==
    call.op = "get_overall_price_stats" =>
        LET n == Cardinality(LatestPriced)
        IN  /\ ret.count = n
            /\ n = 0 => ret = ZeroStats
            /\ n % 2 = 1 => ret.median_price = KthPrice((n + 1) \div 2)
            /\ (n > 0 /\ n % 2 = 0) =>
                   LET sum == KthPrice(n \div 2) + KthPrice(n \div 2 + 1)
                   IN  IF sum % 2 = 0
                       THEN 2 * ret.median_price = sum
                       ELSE /\ ret.median_price % 2 = 0
                            /\ 2 * ret.median_price - sum \in {-1, 1}

\* C17 witness: the statistics were asked of a store with two priced listings whose
\* latest prices have an odd sum, one of them with an older snapshot at another price.
C17_Witness ==
    /\ call.op = "get_overall_price_stats"
    /\ Cardinality(LatestPriced) = 2
    /\ (KthPrice(1) + KthPrice(2)) % 2 = 1
    /\ \E s \in LatestPriced, t \in snapshots :
           /\ t.listing_id = s.listing_id
           /\ t.scraped_at < s.scraped_at
           /\ t.price_value \notin {NULL, s.price_value}

----------------------------------------------------------------------------
(* C20 *)

\* C20: get_listing_details of a known listing returns its status and the fields of
\* its snapshot with the greatest scraped_at (NULL fields when it has no snapshot),
\* and None for an unknown listing id.
C20_DetailsCarryLatestSnapshot ==
    call.op = "get_listing_details" =>
        IF \E l \in listings : l.id = call.listing_id
        THEN LET own == {s \in snapshots : s.listing_id = call.listing_id}
             IN  /\ ret.id = call.listing_id
                 /\ \E st \in listing_status :
                        st.listing_id = call.listing_id /\ st.status = ret.status
                 /\ own = {} => ret.scraped_at = NULL
                 /\ own # {} =>
                        \E s \in own : /\ \A t \in own : t.scraped_at <= s.scraped_at
                                       /\ ret.scraped_at = s.scraped_at
                                       /\ ret.price_value = s.price_value
        ELSE ret = NULL

----------------------------------------------------------------------------
(* The trend query: db.py, get_market_trends. An average is a fraction
   [n |-> numerator, d |-> denominator], d > 0. *)

MaxTrendRuns == 3   \* cycles that wrote the store the trend query reads

TrendAds == <<"A", "B">>
TrendOptions ==
    [a \in {"A", "B"} |->
        IF a = "B" THEN {Absent, Entry(100, 5)}
        ELSE {Absent, Entry(NULL, NULL), Entry(100, 5), Entry(200, 8)}]

TrendStores ==
    {StoreAfter(TrendAds, h) :
        h \in SeqsUpTo(Cycles(TrendAds, TrendOptions, {"completed", "failed", "running"}),
                       MaxTrendRuns)}

Frac(n, d) == [n |-> n, d |-> d]

\* a + b of two fractions
FAdd(a, b) == Frac(a.n * b.d + b.n * a.d, a.d * b.d)

\* The values of a column in the rows, NULLs left out
RECURSIVE Values(_, _)
Values(rows, column) ==
    IF rows = {} THEN <<>>
    ELSE LET r == CHOOSE q \in rows : TRUE
             rest == Values(rows \ {r}, column)
         IN  IF r[column] = NULL THEN rest ELSE <<r[column]>> \o rest

\* AVG(column) or 0: AVG skips NULLs and is NULL over no value; the callers read a
\* NULL average and an average of 0 alike
AvgOrZero(rows, column) ==
    LET vs == Values(rows, column)
    IN  IF vs = <<>> THEN Frac(0, 1) ELSE Frac(Sum(vs), Len(vs))

\* sum(avgs): the sum of the per-listing averages of the rows of these listings
RECURSIVE SumAvgs(_, _, _)
SumAvgs(ids, rows, column) ==
    IF ids = {} THEN Frac(0, 1)
    ELSE LET g == CHOOSE i \in ids : TRUE
         IN  FAdd(AvgOrZero({r \in rows : r.listing_id = g}, column),
                  SumAvgs(ids \ {g}, rows, column))

\* [r[column] for r in prev_rows if r[column]]: the listings whose average counts
Averaged(ids, rows, column) ==
    {g \in ids : AvgOrZero({r \in rows : r.listing_id = g}, column).n # 0}

\* sum(avgs) / len(avgs) when the list is not empty, else the value kept
MeanOfAvgs(ids, rows, column, kept) ==
    LET avgs == Averaged(ids, rows, column)
        total == SumAvgs(avgs, rows, column)
    IN  IF avgs # {} THEN Frac(total.n, total.d * Cardinality(avgs)) ELSE kept

\* round(((current - previous) / previous) * 100, 2) in hundredths when previous > 0,
\* else 0; the values a tie of the exact quotient can round to
ChangePct(current, previous) ==
    IF previous.n > 0
    THEN LET num == current.n * previous.d - previous.n * current.d
             den == previous.n * current.d
         IN  IF num >= 0 THEN Round2(100 * num, den)
             ELSE {0 - p : p \in Round2(100 * (0 - num), den)}
    ELSE {0}

\* SELECT ... FROM scrape_runs without WHERE status = 'completed'
RunsOfAnyStatus(runs) == runs

\* SELECT ... FROM scrape_runs WHERE status = 'completed'
CompletedRuns(runs) == {r \in runs : r.status = "completed"}

\* get_market_trends(conn): the records the function can return
get_market_trends(snaps, all_runs) ==
    LET runs == CompletedRuns(all_runs)
        \* ORDER BY started_at DESC LIMIT 2: runs[1]
        second == CHOOSE r \in runs :
                      Cardinality({q \in runs : q.started_at > r.started_at}) = 1
        current_rows == {s \in LatestSnapshots(snaps) : s.price_value # NULL}
        current_avg_price == AvgOrZero(current_rows, "price_value")
        current_avg_ppsqm == AvgOrZero(current_rows, "price_per_sqm")
        current_count == Cardinality(current_rows)
        prev_snaps == IF Cardinality(runs) >= 2
                      THEN {s \in snaps : s.scraped_at < second.started_at
                                          /\ s.price_value # NULL}
                      ELSE {}
        prev_rows == {s.listing_id : s \in prev_snaps}
        previous_avg_price ==
            MeanOfAvgs(prev_rows, prev_snaps, "price_value", current_avg_price)
        previous_avg_ppsqm ==
            MeanOfAvgs(prev_rows, prev_snaps, "price_per_sqm", current_avg_ppsqm)
        previous_count == IF prev_rows # {} THEN Cardinality(prev_rows) ELSE current_count
    IN  IF runs = {}
        THEN {[current_avg_price |-> 0, previous_avg_price |-> 0, price_change_pct |-> 0,
               current_avg_ppsqm |-> 0, previous_avg_ppsqm |-> 0, ppsqm_change_pct |-> 0,
               current_count |-> 0, previous_count |-> 0, count_change |-> 0]}
        ELSE {[current_avg_price |-> Round(current_avg_price.n, current_avg_price.d),
               previous_avg_price |-> Round(previous_avg_price.n, previous_avg_price.d),
               price_change_pct |-> price_change_pct,
               current_avg_ppsqm |-> Round(current_avg_ppsqm.n, current_avg_ppsqm.d),
               previous_avg_ppsqm |-> Round(previous_avg_ppsqm.n, previous_avg_ppsqm.d),
               ppsqm_change_pct |-> ppsqm_change_pct,
               current_count |-> current_count,
               previous_count |-> previous_count,
               count_change |-> current_count - previous_count] :
                  price_change_pct \in ChangePct(current_avg_price, previous_avg_price),
                  ppsqm_change_pct \in ChangePct(current_avg_ppsqm, previous_avg_ppsqm)}

\* trends = get_market_trends(conn)
GetMarketTrends ==
    /\ NotCalled
    /\ call' = [op |-> "get_market_trends"]
    /\ ret' \in get_market_trends(snapshots, scrape_runs)
    /\ UNCHANGED <<tables, committed, now, pc, locals>>

TrendsInit == \E T \in TrendStores : Idle(T)

TrendsSpec == TrendsInit /\ [][GetMarketTrends]_vars

----------------------------------------------------------------------------
(* C18 *)

\* C18: with no completed run or exactly one, get_market_trends returns
\* price_change_pct = 0, ppsqm_change_pct = 0 and count_change = 0, whatever the
\* snapshots and the failed or running runs of the store.
C18_NoTrendBelowTwoCompletedRuns ==
    (/\ call.op = "get_market_trends"
     /\ Cardinality({r \in scrape_runs : r.status = "completed"}) <= 1)
        => /\ ret.price_change_pct = 0
           /\ ret.ppsqm_change_pct = 0
           /\ ret.count_change = 0

\* C18 witness: the trends were asked of a store with one completed run, a failed
\* run and a running run, in which a listing was priced 200 after it was priced 100
\* and the other listing has one snapshot only.
C18_Witness ==
    /\ call.op = "get_market_trends"
    /\ Cardinality({r \in scrape_runs : r.status = "completed"}) = 1
    /\ \E r \in scrape_runs : r.status = "running"
    /\ \E r \in scrape_runs : r.status \notin {"running", "completed"}
    /\ \E s, t \in snapshots : /\ s.listing_id = t.listing_id
                               /\ s.scraped_at < t.scraped_at
                               /\ s.price_value = 100
                               /\ t.price_value = 200
    /\ ret.current_count = 2

----------------------------------------------------------------------------
(* C19 *)

\* The start of the second-most-recent completed run
PrevRunTime ==
    LET completed == {r \in scrape_runs : r.status = "completed"}
    IN  (CHOOSE r \in completed :
             Cardinality({q \in completed : q.started_at > r.started_at}) = 1).started_at

\* C19: with two completed runs or more, previous_count is the number of listings
\* with a priced snapshot captured strictly before the start of the second-most-recent
\* completed run (0 without such a snapshot), and count_change is current_count
\* minus previous_count.
C19_PreviousFromBeforeSecondRun ==
    (/\ call.op = "get_market_trends"
     /\ Cardinality({r \in scrape_runs : r.status = "completed"}) >= 2)
        => /\ ret.previous_count =
                  Cardinality({s.listing_id : s \in {t \in snapshots :
                                   t.price_value # NULL /\ t.scraped_at < PrevRunTime}})
           /\ ret.count_change = ret.current_count - ret.previous_count

----------------------------------------------------------------------------
(* C21 *)

\* C21: get_all_listings_with_latest_snapshot returns one row for every listing of
\* the store and no other row; the row of a listing carries its snapshot with the
\* greatest scraped_at, or NULL snapshot fields when the listing has no snapshot.
C21_OneRowPerListing ==
    call.op = "get_all_listings_with_latest_snapshot" =>
        /\ \A r \in ret : \E l \in listings : l.id = r.id
        /\ \A l \in listings :
               LET own == {s \in snapshots : s.listing_id = l.id}
                   rows == {r \in ret : r.id = l.id}
               IN  /\ Cardinality(rows) = 1
                   /\ \A r \in rows :
                          /\ own = {} => r.scraped_at = NULL
                          /\ own # {} =>
                                 \E s \in own :
                                     /\ \A t \in own : t.scraped_at <= s.scraped_at
                                     /\ r.scraped_at = s.scraped_at
                                     /\ r.price_value = s.price_value

----------------------------------------------------------------------------
(* C22 *)

\* C22: when a cycle completes, every listing then open has its ad_id among the
\* non-empty ad_ids of the scrape result and its latest snapshot was captured at the
\* scraped_at of the cycle; and the open ad_ids are the scraped non-empty ad_ids
\* less those that were closed when the cycle began.
C22_OpenSetIsScrapedLessClosed ==
    [][(pc = "complete" /\ pc' = "returned") =>
           LET open == {l \in committed'.listings :
                           \E s \in committed'.listing_status :
                               s.listing_id = l.id /\ s.status = "open"}
               closed_before == ClosedAdIds(committed.listings, committed.listing_status)
           IN  /\ \A l \in open :
                      /\ l.ad_id \in ScrapedSet
                      /\ \E s \in committed'.snapshots :
                             s.listing_id = l.id /\ s.scraped_at = scraped_at
                      /\ \A s \in committed'.snapshots :
                             s.listing_id = l.id => s.scraped_at <= scraped_at
               /\ {l.ad_id : l \in open} = ScrapedSet \ closed_before]_vars

====
